---- MODULE Spec2Model ----
(***************************************************************************)
(* Model of xradio/_utils/_casacore/casacore_from_casatools.py: the bridge *)
(* that presents casatools tables, images and coordinate systems with the  *)
(* python-casacore method surface and row-major (C order) conventions.     *)
(*                                                                         *)
(* Python values are tagged records (field "kind"); a NumPy array is its   *)
(* shape, its strides (in items) and its buffer, so that .T is the view    *)
(* NumPy builds (shape and strides reversed, same buffer) and the          *)
(* contiguity flags are computed from shape and strides as NumPy does.     *)
(***************************************************************************)
EXTENDS Integers, Sequences, FiniteSets, TLC

VARIABLES
    val,        \* normalizer: the value handed to recursive_transpose
    depth,      \* normalizer: nesting depth of val
    result,     \* normalizer: what recursive_transpose returned
    pc          \* normalizer: "build" while the input is assembled, "done" after the call

VARIABLES
    cells,      \* table: the engine's cell of column DATA for each row
    tbOpen,     \* table: whether the table handle is open
    storage,    \* table: the table directories that exist on the filesystem
    copyOpen,   \* table: whether the engine holds the shallow copy open
    views,      \* table: the caller's row view and column view, each with whether
                \*        the table was open when it was made
    ret         \* table: the last call of the bridge, what it returned or raised,
                \*        and the engine calls it made

VARIABLES
    summary,    \* image: what the engine's summary(list=False) returns for the image
    imgState,   \* image: "none" before construction, then "open" or "failed"
    imgRet      \* image: the last call, what it returned or raised, its engine calls

VARIABLES
    cs,         \* coordinate system: the engine's coordinates, their pixel axes, the axis names
    csRet       \* coordinate system: the last call and what it returned

normVars == <<val, depth, result, pc>>
csVars == <<cs, csRet>>
imageVars == <<summary, imgState, imgRet>>
tableVars == <<cells, tbOpen, storage, copyOpen, views, ret>>

MaxDim == 3
MaxRank == 2
MaxDepth == 3
MaxLen == 2
MaxRows == 3
MaxChan == 3
MaxStokes == 2
MaxCoords == 3

(***************************************************************************)
(* Python values                                                           *)
(***************************************************************************)
PyNone == [kind |-> "None"]
PyInt(n) == [kind |-> "int", iv |-> n]
PyStr(s) == [kind |-> "str", sv |-> s]
PyBool(b) == [kind |-> "bool", bv |-> b]
PyList(items) == [kind |-> "list", items |-> items]
\* a dict keeps its keys in insertion order: keys[i] maps to vals[i]
PyDict(keys, vals) == [kind |-> "dict", keys |-> keys, vals |-> vals]
NdArray(shape, strides, data) ==
    [kind |-> "ndarray", shape |-> shape, strides |-> strides, data |-> data]

Reverse(s) == [i \in 1..Len(s) |-> s[Len(s) + 1 - i]]

RECURSIVE Prod(_)
Prod(s) == IF Len(s) = 0 THEN 1 ELSE s[1] * Prod(Tail(s))

RECURSIVE Dot(_, _)
Dot(a, b) == IF Len(a) = 0 THEN 0 ELSE a[1] * b[1] + Dot(Tail(a), Tail(b))

\* strides (in items) of a freshly allocated column-major / row-major array
FStrides(shape) == [i \in 1..Len(shape) |-> Prod(SubSeq(shape, 1, i - 1))]
CStrides(shape) == [i \in 1..Len(shape) |-> Prod(SubSeq(shape, i + 1, Len(shape)))]

\* ndarray.flags.f_contiguous / c_contiguous: axes of length 1 do not count
f_contiguous(a) ==
    \A i \in 1..Len(a.shape) :
        a.shape[i] # 1 => a.strides[i] = Prod(SubSeq(a.shape, 1, i - 1))
c_contiguous(a) ==
    \A i \in 1..Len(a.shape) :
        a.shape[i] # 1 => a.strides[i] = Prod(SubSeq(a.shape, i + 1, Len(a.shape)))

\* ndarray.T: a view with the axes reversed
T(a) == NdArray(Reverse(a.shape), Reverse(a.strides), a.data)

\* a[idx] for a 0-based index tuple
Indices(a) ==
    {idx \in [1..Len(a.shape) -> 0..MaxDim] : \A i \in 1..Len(a.shape) : idx[i] < a.shape[i]}
ElemAt(a, idx) == a.data[1 + Dot(idx, a.strides)]

(***************************************************************************)
(* recursive_transpose                                                     *)
(***************************************************************************)
\* a normalizer that forgets the layout test and transposes every array
RECURSIVE transpose_every_array(_)
transpose_every_array(v) ==
    IF v.kind = "ndarray" THEN T(v)
    ELSE IF v.kind = "list"
    THEN PyList([i \in 1..Len(v.items) |-> transpose_every_array(v.items[i])])
    ELSE IF v.kind = "dict"
    THEN PyDict(v.keys, [i \in 1..Len(v.vals) |-> transpose_every_array(v.vals[i])])
    ELSE v

\* a normalizer that walks lists but returns the values of a mapping as they are
RECURSIVE transpose_lists_only(_)
transpose_lists_only(v) ==
    IF v.kind = "ndarray" /\ f_contiguous(v) THEN T(v)
    ELSE IF v.kind = "list"
    THEN PyList([i \in 1..Len(v.items) |-> transpose_lists_only(v.items[i])])
    ELSE v

RECURSIVE recursive_transpose(_)
recursive_transpose(v) ==
    IF v.kind = "ndarray" /\ f_contiguous(v) THEN T(v)
    ELSE IF v.kind = "list"
    THEN PyList([i \in 1..Len(v.items) |-> recursive_transpose(v.items[i])])
    ELSE IF v.kind = "dict"
    THEN PyDict(v.keys, [i \in 1..Len(v.vals) |-> recursive_transpose(v.vals[i])])
    ELSE v

(***************************************************************************)
(* Inputs of the normalizer                                                *)
(***************************************************************************)
Shapes == UNION {[1..n -> 1..MaxDim] : n \in 0..MaxRank}
Iota(n) == [i \in 1..n |-> i]
Arrays ==
    UNION {{NdArray(s, st, Iota(Prod(s))) : st \in {FStrides(s), CStrides(s)}} : s \in Shapes}
Scalars == {PyNone, PyInt(7), PyStr("s"), PyBool(TRUE)}
Leaves == Arrays \cup Scalars
Keys == {"a", "x"}
\* what is put next to val when a container gets a second element
Siblings == {NdArray(<<2, 2>>, <<1, 2>>, <<5, 6, 7, 8>>)}

NormIdle == val = PyNone /\ depth = 0 /\ result = PyNone /\ pc = "idle"

NormInit ==
    /\ val \in Leaves
    /\ depth = 0
    /\ result = PyNone
    /\ pc = "build"

\* val becomes the first element of a new list, followed by siblings
WrapInList ==
    /\ pc = "build" /\ depth < MaxDepth
    /\ \E n \in 0..(MaxLen - 1) : \E s \in Siblings :
          val' = PyList(<<val>> \o [i \in 1..n |-> s])
    /\ depth' = depth + 1
    /\ UNCHANGED <<result, pc>>

\* val becomes the value of a key of a new mapping, alone or before a sibling
WrapInDict ==
    /\ pc = "build" /\ depth < MaxDepth
    /\ \E k \in Keys :
          \/ val' = PyDict(<<k>>, <<val>>)
          \/ \E k2 \in Keys \ {k} : \E s \in Siblings :
                val' = PyDict(<<k, k2>>, <<val, s>>)
    /\ depth' = depth + 1
    /\ UNCHANGED <<result, pc>>

Normalize ==
    /\ pc = "build"
    /\ result' = recursive_transpose(val)
    /\ pc' = "done"
    /\ UNCHANGED <<val, depth>>

(***************************************************************************)
(* method_wrapper and the outcome of a call                                *)
(***************************************************************************)
\* a call returns a value or raises; calls lists the engine calls it made
Ok(v, calls) == [exc |-> "", value |-> v, calls |-> calls]
Raise(e, calls) == [exc |-> e, value |-> PyNone, calls |-> calls]
Call(fn, arg, exc, res) == [fn |-> fn, arg |-> arg, exc |-> exc, result |-> res]

\* wrapped(*args, **kwargs): the method's result goes through recursive_transpose;
\* an exception of the method propagates
method_wrapper(o) ==
    IF o.exc # "" THEN o ELSE [o EXCEPT !.value = recursive_transpose(@)]

(***************************************************************************)
(* The table engine (casatools), as the bridge calls it.  t.mode is "live" *)
(* for an open table; for a closed one the engine either raises or answers *)
(* from what it still holds ("raise", "stale").                            *)
(***************************************************************************)
TableName == "t.ms"
ColName == "DATA"
Answers(t, rownr) == t.mode # "raise" /\ rownr \in 0..(Len(t.cells) - 1)

casatools_tablerow_get(t, rownr) ==
    IF Answers(t, rownr)
    THEN LET v == PyDict(<<ColName>>, <<t.cells[rownr + 1]>>)
         IN  Ok(v, <<Call("tablerow.get", rownr, "", v)>>)
    ELSE Raise("EngineError", <<Call("tablerow.get", rownr, "EngineError", PyNone)>>)

casatools_tablerow_len(t) ==
    IF t.mode # "raise"
    THEN Ok(PyInt(Len(t.cells)), <<Call("tablerow.__len__", 0, "", PyInt(Len(t.cells)))>>)
    ELSE Raise("EngineError", <<Call("tablerow.__len__", 0, "EngineError", PyNone)>>)

casatools_table_getcell(t, rownr) ==
    IF Answers(t, rownr)
    THEN Ok(t.cells[rownr + 1], <<Call("table.getcell", rownr, "", t.cells[rownr + 1])>>)
    ELSE Raise("EngineError", <<Call("table.getcell", rownr, "EngineError", PyNone)>>)

casatools_table_nrows(t) ==
    IF t.mode # "raise"
    THEN Ok(PyInt(Len(t.cells)), <<Call("table.nrows", 0, "", PyInt(Len(t.cells)))>>)
    ELSE Raise("EngineError", <<Call("table.nrows", 0, "EngineError", PyNone)>>)

(***************************************************************************)
(* slice.indices and range                                                 *)
(***************************************************************************)
PySlice(start, stop, step) == [kind |-> "slice", start |-> start, stop |-> stop, step |-> step]
\* None is the empty set, an integer n is {n}
The(opt) == CHOOSE n \in opt : TRUE
SliceStep(key) == IF key.step = {} THEN 1 ELSE The(key.step)

\* slice.indices(length), for a step that is not 0: <<start, stop, step>>
SliceIndices(key, length) ==
    LET step == SliceStep(key)
        lower == IF step < 0 THEN -1 ELSE 0
        upper == IF step < 0 THEN length - 1 ELSE length
        Clamp(opt, dflt) ==
            IF opt = {} THEN dflt
            ELSE LET n == The(opt)
                 IN  IF n < 0
                     THEN (IF n + length < lower THEN lower ELSE n + length)
                     ELSE (IF n > upper THEN upper ELSE n)
    IN  << Clamp(key.start, IF step < 0 THEN upper ELSE lower),
           Clamp(key.stop, IF step < 0 THEN lower ELSE upper),
           step >>

\* list(range(start, stop, step))
Range(r) ==
    LET span == IF r[3] > 0 THEN r[2] - r[1] ELSE r[1] - r[2]
        by == IF r[3] > 0 THEN r[3] ELSE -r[3]
        n == IF span <= 0 THEN 0 ELSE (span + by - 1) \div by
    IN  [k \in 1..n |-> r[1] + (k - 1) * r[3]]

(***************************************************************************)
(* tablerow, tablecolumn and the wrapped table methods they call           *)
(***************************************************************************)
\* tablerow.get as written: @method_wrapper around super().get(rownr)
tablerow_get_decorated(t, rownr) == method_wrapper(casatools_tablerow_get(t, rownr))
\* tablerow.get as the class holds it: @wrap_class_methods wraps it once more
tablerow_get(t, rownr) == method_wrapper(tablerow_get_decorated(t, rownr))
\* tablerow.__len__ is inherited and wrapped by @wrap_class_methods
tablerow_len(t) == method_wrapper(casatools_tablerow_len(t))

\* [self.get(irow) for irow in ...]: stops at the first get that raises
RECURSIVE tablerow_get_each(_, _)
tablerow_get_each(t, rows) ==
    IF Len(rows) = 0 THEN Ok(PyList(<<>>), <<>>)
    ELSE LET first == tablerow_get(t, rows[1])
         IN  IF first.exc # "" THEN first
             ELSE LET rest == tablerow_get_each(t, Tail(rows))
                  IN  IF rest.exc # ""
                      THEN Raise(rest.exc, first.calls \o rest.calls)
                      ELSE Ok(PyList(<<first.value>> \o rest.value.items),
                              first.calls \o rest.calls)

tablerow_getitem_body(t, key) ==
    IF key.kind = "slice"
    THEN LET n == tablerow_len(t)
         IN  IF n.exc # "" THEN n
             ELSE IF SliceStep(key) = 0 THEN Raise("ValueError", n.calls)
             ELSE LET each == tablerow_get_each(t, Range(SliceIndices(key, n.value.iv)))
                  IN  [each EXCEPT !.calls = n.calls \o @]
    ELSE IF key.kind = "int" THEN tablerow_get(t, key.iv)
    ELSE Ok(PyNone, <<>>)
\* tablerow.__getitem__ as the class holds it
tablerow_getitem(t, key) == method_wrapper(tablerow_getitem_body(t, key))

\* table.getcell and table.nrows are inherited and wrapped by @wrap_class_methods
table_getcell(t, rownr) == method_wrapper(casatools_table_getcell(t, rownr))
table_nrows(t) == method_wrapper(casatools_table_nrows(t))

\* tablecolumn.get as written: @method_wrapper around self._table.getcell
tablecolumn_get_decorated(t, irow) == method_wrapper(table_getcell(t, irow))
\* tablecolumn.get as the class holds it
tablecolumn_get(t, irow) == method_wrapper(tablecolumn_get_decorated(t, irow))

RECURSIVE tablecolumn_get_each(_, _)
tablecolumn_get_each(t, rows) ==
    IF Len(rows) = 0 THEN Ok(PyList(<<>>), <<>>)
    ELSE LET first == tablecolumn_get(t, rows[1])
         IN  IF first.exc # "" THEN first
             ELSE LET rest == tablecolumn_get_each(t, Tail(rows))
                  IN  IF rest.exc # ""
                      THEN Raise(rest.exc, first.calls \o rest.calls)
                      ELSE Ok(PyList(<<first.value>> \o rest.value.items),
                              first.calls \o rest.calls)

tablecolumn_getitem_body(t, key) ==
    IF key.kind = "slice"
    THEN LET n == table_nrows(t)
         IN  IF n.exc # "" THEN n
             ELSE IF SliceStep(key) = 0 THEN Raise("ValueError", n.calls)
             ELSE LET each == tablecolumn_get_each(t, Range(SliceIndices(key, n.value.iv)))
                  IN  [each EXCEPT !.calls = n.calls \o @]
    ELSE IF key.kind = "int" THEN tablecolumn_get(t, key.iv)
    ELSE Ok(PyNone, <<>>)
tablecolumn_getitem(t, key) == method_wrapper(tablecolumn_getitem_body(t, key))

(***************************************************************************)
(* The table: state and operations                                         *)
(***************************************************************************)
\* the cells the engine hands out: column-major arrays, one of them with an
\* axis of length 1
CellValues ==
    { NdArray(<<2, 3>>, <<1, 2>>, <<1, 2, 3, 4, 5, 6>>),
      NdArray(<<1, 3>>, <<1, 1>>, <<1, 2, 3>>) }
Tables == UNION {[1..n -> CellValues] : n \in 0..MaxRows}
RowNumbers == (-1)..MaxRows
\* view[1:MaxRows], view[:], view[::-1], view[::2], view[-1:], view[:-1],
\* view[MaxRows:0:-1], view[-1::-1], view[1:MaxRows:2], view[::0]
SliceKeys ==
    { PySlice({1}, {MaxRows}, {}), PySlice({}, {}, {}), PySlice({}, {}, {-1}),
      PySlice({}, {}, {2}), PySlice({-1}, {}, {}), PySlice({}, {-1}, {}),
      PySlice({MaxRows}, {0}, {-1}), PySlice({-1}, {}, {-1}),
      PySlice({1}, {MaxRows}, {2}), PySlice({}, {}, {0}) }
ItemKeys == SliceKeys \cup {PyInt(n) : n \in RowNumbers} \cup {PyStr(ColName)}
\* how the engine treats the handle: an open table answers
Modes == IF tbOpen THEN {"live"} ELSE {"raise", "stale"}
Engine(mode) == [cells |-> cells, mode |-> mode]
\* the record of a call: on is the view it was made on (NoView for the table)
Returned(op, on, input, mode, o) ==
    [op |-> op, on |-> on, input |-> input, wasOpen |-> tbOpen, mode |-> mode,
     exc |-> o.exc, value |-> o.value, calls |-> o.calls]
View(name) == [view |-> name, madeOpen |-> tbOpen]
NoView == [view |-> "", madeOpen |-> tbOpen]
ViewsOf(name) == {v \in views : v.view = name}

TableIdle ==
    /\ cells = <<>> /\ tbOpen = FALSE /\ storage = {} /\ copyOpen = FALSE
    /\ views = {} /\ ret = [op |-> "idle"]

\* table(tablename): the table exists and the handle is open
TableInit ==
    /\ cells \in Tables
    /\ tbOpen = TRUE
    /\ storage = {TableName}
    /\ copyOpen = FALSE
    /\ views = {}
    /\ ret = [op |-> "init"]

\* table.close (inherited)
Close ==
    /\ tbOpen
    /\ tbOpen' = FALSE
    /\ UNCHANGED <<cells, storage, copyOpen, views, ret>>

\* table.open (inherited)
Open ==
    /\ ~tbOpen
    /\ tbOpen' = TRUE
    /\ UNCHANGED <<cells, storage, copyOpen, views, ret>>

\* table.row(): a tablerow over the table, built by the engine, which may refuse
\* a table that is closed
Row ==
    /\ \E built \in (IF tbOpen THEN {TRUE} ELSE BOOLEAN) :
          views' = IF built THEN (views \ ViewsOf("row")) \cup {View("row")} ELSE views
    /\ UNCHANGED <<cells, tbOpen, storage, copyOpen, ret>>

\* table.col(columnname): a tablecolumn over the table
Col ==
    /\ views' = (views \ ViewsOf("col")) \cup {View("col")}
    /\ UNCHANGED <<cells, tbOpen, storage, copyOpen, ret>>

RowGet ==
    /\ \E v \in ViewsOf("row") : \E rownr \in RowNumbers : \E mode \in Modes :
          ret' = Returned("tablerow.get", v, PyInt(rownr), mode,
                          tablerow_get(Engine(mode), rownr))
    /\ UNCHANGED <<cells, tbOpen, storage, copyOpen, views>>

RowGetItem ==
    /\ \E v \in ViewsOf("row") : \E key \in ItemKeys : \E mode \in Modes :
          ret' = Returned("tablerow.__getitem__", v, key, mode,
                          tablerow_getitem(Engine(mode), key))
    /\ UNCHANGED <<cells, tbOpen, storage, copyOpen, views>>

ColGet ==
    /\ \E v \in ViewsOf("col") : \E irow \in RowNumbers : \E mode \in Modes :
          ret' = Returned("tablecolumn.get", v, PyInt(irow), mode,
                          tablecolumn_get(Engine(mode), irow))
    /\ UNCHANGED <<cells, tbOpen, storage, copyOpen, views>>

ColGetItem ==
    /\ \E v \in ViewsOf("col") : \E key \in ItemKeys : \E mode \in Modes :
          ret' = Returned("tablecolumn.__getitem__", v, key, mode,
                          tablecolumn_getitem(Engine(mode), key))
    /\ UNCHANGED <<cells, tbOpen, storage, copyOpen, views>>

(***************************************************************************)
(* table.taql and table.getcellslice                                       *)
(***************************************************************************)
CopySuffix == "_copy"
\* taqlcommand as its tokens; str.replace puts the table name for a placeholder
Commands == {<<"SELECT", "FROM", "$mtable">>, <<"COUNT", "$gtable", "$mtable">>}
Substitute(cmd, tablename) ==
    [i \in 1..Len(cmd) |-> IF cmd[i] \in {"$mtable", "$gtable"} THEN tablename ELSE cmd[i]]
QueryResult == [kind |-> "table", name |-> "taql result"]

\* the engine's getcellslice with the keyword arguments it was given
casatools_table_getcellslice(mode, answer, kwargs) ==
    IF mode # "raise"
    THEN Ok(answer, <<[fn |-> "table.getcellslice", kwargs |-> kwargs, exc |-> ""]>>)
    ELSE Raise("EngineError",
               <<[fn |-> "table.getcellslice", kwargs |-> kwargs, exc |-> "EngineError"]>>)

IsSequence(v) == v.kind = "list"
\* v[::-1] and list(map(int, v))
Reversed(v) == PyList(Reverse(v.items))
MapInt(v) == PyList([i \in 1..Len(v.items) |-> PyInt(v.items[i].iv)])
Repeat(v, n) == PyList([i \in 1..n |-> v])

\* a getcellslice that hands the engine the row numbers it prepared from the argument
getcellslice_passes_rows(mode, answer, columnname, rownr, blc, trc, incr) ==
    LET rownr1 == IF IsSequence(rownr) THEN Reversed(rownr) ELSE Repeat(rownr, Len(blc.items))
        blc1 == IF IsSequence(blc) THEN MapInt(Reversed(blc)) ELSE blc
        trc1 == IF IsSequence(trc) THEN MapInt(Reversed(trc)) ELSE trc
    IN  casatools_table_getcellslice(mode, answer,
            [columnname |-> columnname, rownr |-> rownr1, blc |-> blc1, trc |-> trc1])

table_getcellslice_body(mode, answer, columnname, rownr, blc, trc, incr) ==
    LET rownr1 == IF IsSequence(rownr) THEN Reversed(rownr) ELSE Repeat(rownr, Len(blc.items))
        rownr2 == PyInt(0)
        blc1 == IF IsSequence(blc) THEN MapInt(Reversed(blc)) ELSE blc
        trc1 == IF IsSequence(trc) THEN MapInt(Reversed(trc)) ELSE trc
        incr1 == IF IsSequence(incr) THEN Reversed(incr) ELSE Repeat(incr, Len(blc.items))
    IN  casatools_table_getcellslice(mode, answer,
            [columnname |-> columnname, rownr |-> rownr2, blc |-> blc1, trc |-> trc1])
\* table.getcellslice as the class holds it
table_getcellslice(mode, answer, columnname, rownr, blc, trc, incr) ==
    method_wrapper(table_getcellslice_body(mode, answer, columnname, rownr, blc, trc, incr))

Corners == {PyList(<<PyInt(0), PyInt(1)>>), PyList(<<PyInt(1), PyInt(2)>>)}
\* rownr: a single row number, or the list [1, .., n] of row numbers for n in 0..MaxLen
RowArgs ==
    {PyInt(0), PyInt(MaxRows)} \cup {PyList([i \in 1..n |-> PyInt(i)]) : n \in 0..MaxLen}
IncrArgs == {PyInt(1), PyInt(2), PyList(<<PyInt(1), PyInt(2)>>)}

GetCellSlice ==
    /\ \E rownr \in RowArgs : \E blc \in Corners : \E trc \in Corners : \E incr \in IncrArgs :
       \E mode \in Modes : \E answer \in CellValues :
          ret' = Returned("table.getcellslice", NoView,
                          [rownr |-> rownr, blc |-> blc, trc |-> trc, incr |-> incr], mode,
                          table_getcellslice(mode, answer, PyStr(ColName), rownr, blc, trc, incr))
    /\ UNCHANGED <<cells, tbOpen, storage, copyOpen, views>>

\* table.taql: copyOk and queryOk are the engine's answers to copy and to taql
Taql ==
    \E cmd \in Commands : \E copyOk \in BOOLEAN : \E queryOk \in BOOLEAN :
        LET is_open == tbOpen
            tablename == IF is_open THEN TableName ELSE TableName \o CopySuffix
            tb_query == Substitute(cmd, tablename)
            copied == IF is_open THEN <<>> ELSE <<[fn |-> "table.copy", arg |-> tablename]>>
            asked == copied \o <<[fn |-> "table.taql", arg |-> tb_query]>>
            input == [taqlcommand |-> cmd, tablename |-> tablename]
        IN  /\ IF ~is_open /\ ~copyOk
               THEN \* self.copy raises: nothing was made
                    /\ ret' = Returned("table.taql", NoView, input, "live", Raise("EngineError", copied))
                    /\ UNCHANGED <<storage, copyOpen>>
               ELSE IF ~queryOk
               THEN \* _swigobj.taql raises: the call ends here
                    /\ ret' = Returned("table.taql", NoView, input, "live", Raise("QueryError", asked))
                    /\ storage' = IF is_open THEN storage ELSE storage \cup {tablename}
                    /\ copyOpen' = IF is_open THEN copyOpen ELSE TRUE
               ELSE /\ ret' = Returned("table.taql", NoView, input, "live",
                                method_wrapper(Ok(QueryResult,
                                    IF is_open THEN asked
                                    ELSE asked \o <<[fn |-> "table.close", arg |-> tablename],
                                                    [fn |-> "shutil.rmtree", arg |-> tablename]>>)))
                    /\ storage' = IF is_open THEN storage ELSE storage \ {tablename}
                    /\ copyOpen' = IF is_open THEN copyOpen ELSE FALSE
            /\ UNCHANGED <<cells, tbOpen, views>>

(***************************************************************************)
(* dict operations                                                         *)
(***************************************************************************)
DictHas(d, k) == \E i \in 1..Len(d.keys) : d.keys[i] = k
DictIndex(d, k) == CHOOSE i \in 1..Len(d.keys) : d.keys[i] = k
\* d[k]
DictGet(d, k) == d.vals[DictIndex(d, k)]
\* d[k] = v: a present key keeps its place, a new key goes last
DictSet(d, k, v) ==
    IF DictHas(d, k)
    THEN PyDict(d.keys, [d.vals EXCEPT ![DictIndex(d, k)] = v])
    ELSE PyDict(Append(d.keys, k), Append(d.vals, v))
\* d.pop(k, None)
DictPop(d, k) ==
    IF DictHas(d, k)
    THEN LET at == DictIndex(d, k)
             Keep(q) == SubSeq(q, 1, at - 1) \o SubSeq(q, at + 1, Len(q))
         IN  PyDict(Keep(d.keys), Keep(d.vals))
    ELSE d
\* d.update(e)
RECURSIVE DictUpdate(_, _)
DictUpdate(d, e) ==
    IF Len(e.keys) = 0 THEN d
    ELSE DictUpdate(DictSet(d, e.keys[1], e.vals[1]), PyDict(Tail(e.keys), Tail(e.vals)))

\* str(n) for n >= 0
Digit(n) ==
    CASE n = 0 -> "0" [] n = 1 -> "1" [] n = 2 -> "2" [] n = 3 -> "3" [] n = 4 -> "4"
      [] n = 5 -> "5" [] n = 6 -> "6" [] n = 7 -> "7" [] n = 8 -> "8" [] n = 9 -> "9"
RECURSIVE ToStr(_)
ToStr(n) == IF n < 10 THEN Digit(n) ELSE ToStr(n \div 10) \o Digit(n % 10)
\* "*" + str(n)
StarKey(n) == "*" \o ToStr(n)

(***************************************************************************)
(* image                                                                   *)
(***************************************************************************)
\* an index that strides by the number of polarizations
LinearIndexByStokes(nchan, npol, c, p) == npol * p + c

\* k = nchan * p + c
LinearIndex(nchan, npol, c, p) == nchan * p + c

\* for c in range(nchan): for p in range(npol): the pairs (c, p) in loop order
LoopPairs(nchan, npol) ==
    [i \in 1..(nchan * npol) |-> <<(i - 1) \div npol, (i - 1) % npol>>]

\* the loop's assignments to perplanebeams_flat, starting from flat
RECURSIVE FlattenLoop(_, _, _, _, _)
FlattenLoop(flat, perplanebeams, nchan, npol, pairs) ==
    IF Len(pairs) = 0 THEN flat
    ELSE LET c == pairs[1][1]
             p == pairs[1][2]
             k == LinearIndex(nchan, npol, c, p)
         IN  FlattenLoop(
                 DictSet(flat, StarKey(k), DictGet(DictGet(perplanebeams, StarKey(c)), StarKey(p))),
                 perplanebeams, nchan, npol, Tail(pairs))

flatten_multibeam_body(imageinfo) ==
    IF DictHas(imageinfo, "perplanebeams")
    THEN LET ppb == DictGet(imageinfo, "perplanebeams")
             perplanebeams == DictGet(ppb, "beams")
             nchan == DictGet(ppb, "nChannels").iv
             npol == DictGet(ppb, "nStokes").iv
             perplanebeams_flat ==
                 FlattenLoop(PyDict(<<>>, <<>>), perplanebeams, nchan, npol,
                             LoopPairs(nchan, npol))
         IN  DictSet(imageinfo, "perplanebeams",
                     DictUpdate(DictPop(ppb, "beams"), perplanebeams_flat))
    ELSE imageinfo
\* image._flatten_multibeam as the class holds it
flatten_multibeam(imageinfo) == method_wrapper(Ok(flatten_multibeam_body(imageinfo), <<>>))

\* image.info as written, and as the class holds it
image_info_body(engineSummary) ==
    LET imageinfo == flatten_multibeam(engineSummary).value
    IN  Ok(PyDict(<<"imageinfo", "coordinates", "miscinfo">>,
                  <<imageinfo, PyDict(<<>>, <<>>), PyDict(<<>>, <<>>)>>),
           <<[fn |-> "image.summary"], [fn |-> "coordsys.torecord"], [fn |-> "image.miscinfo"]>>)
image_info(engineSummary) == method_wrapper(image_info_body(engineSummary))

\* the engine's summaries: a single-beam image, or per-plane beams for nchan
\* channels and npol polarizations
BeamValues == {1, 2}
Beam(b) == PyDict(<<"major">>, <<PyInt(b)>>)
BeamsOf(nchan, npol, b) ==
    PyDict([c \in 1..nchan |-> StarKey(c - 1)],
           [c \in 1..nchan |->
               PyDict([q \in 1..npol |-> StarKey(q - 1)],
                      [q \in 1..npol |-> Beam(b[<<c - 1, q - 1>>])])])
SummaryOf(nchan, npol, b) ==
    PyDict(<<"unit", "perplanebeams">>,
           << PyStr("Jy/beam"),
              PyDict(<<"beams", "nChannels", "nStokes">>,
                     <<BeamsOf(nchan, npol, b), PyInt(nchan), PyInt(npol)>>) >>)
Summaries ==
    {PyDict(<<"unit">>, <<PyStr("Jy/beam")>>)}
    \cup UNION { UNION { {SummaryOf(nchan, npol, b) :
                              b \in [(0..(nchan - 1)) \X (0..(npol - 1)) -> BeamValues]}
                         : npol \in 1..MaxStokes }
                 : nchan \in 1..MaxChan }

ImageIdle == summary = PyNone /\ imgState = "none" /\ imgRet = [op |-> "idle"]

ImageInit ==
    /\ summary \in Summaries
    /\ imgState = "none"
    /\ imgRet = [op |-> "init"]

ImageName == "x.im"
ShapeArgs == {PyNone, PyList(<<PyInt(2), PyInt(2)>>)}
ValuesArgs == {PyNone, NdArray(<<2, 2>>, <<2, 1>>, <<1, 2, 3, 4>>)}

\* image.__init__
image_init(imagename, shape, values) ==
    IF shape = PyNone
    THEN Ok(PyNone, <<[fn |-> "image.open", arg |-> imagename]>>)
    ELSE \* "if value is None": the name value is bound nowhere
         Raise("NameError", <<>>)

\* image(imagename, shape=..., values=...)
ImageConstruct ==
    /\ imgState = "none"
    /\ \E shape \in ShapeArgs : \E values \in ValuesArgs :
          LET o == image_init(ImageName, shape, values)
          IN  /\ imgRet' = [op |-> "image.__init__", input |-> [shape |-> shape, values |-> values],
                            exc |-> o.exc, value |-> o.value, calls |-> o.calls]
              /\ imgState' = IF o.exc = "" THEN "open" ELSE "failed"
    /\ UNCHANGED summary

\* image._flatten_multibeam(imageinfo) on the engine's summary
FlattenMultibeam ==
    /\ imgState = "open"
    /\ LET o == flatten_multibeam(summary)
       IN  imgRet' = [op |-> "image._flatten_multibeam", input |-> summary,
                      exc |-> o.exc, value |-> o.value, calls |-> o.calls]
    /\ UNCHANGED <<summary, imgState>>

\* image.info()
Info ==
    /\ imgState = "open"
    /\ LET o == image_info(summary)
       IN  imgRet' = [op |-> "image.info", input |-> summary,
                      exc |-> o.exc, value |-> o.value, calls |-> o.calls]
    /\ UNCHANGED <<summary, imgState>>

\* image.done (inherited): the handle is given up
Done ==
    /\ imgState # "none"
    /\ imgState' = "none"
    /\ UNCHANGED <<summary, imgRet>>

(***************************************************************************)
(* coordinatesystem                                                        *)
(***************************************************************************)
CoordTypes == {"Direction", "Spectral", "Stokes", "Linear"}
\* the world axes of a coordinate of each type, in the coordinate's own order
AxisNames(type) ==
    CASE type = "Direction" -> <<"Right Ascension", "Declination">>
      [] type = "Spectral" -> <<"Frequency">>
      [] type = "Stokes" -> <<"Stokes">>
      [] type = "Linear" -> <<"Offset U", "Offset V">>
\* str.lower on a coordinate type
Lower(type) ==
    CASE type = "Direction" -> "direction"
      [] type = "Spectral" -> "spectral"
      [] type = "Stokes" -> "stokes"
      [] type = "Linear" -> "linear"
      [] OTHER -> type

\* self._cs.names(), self._cs.coordinatetype()
casatools_names(c) == c.names
casatools_coordinatetype(c) == c.types
\* self._cs.findcoordinate(type): the first coordinate of that type, whatever the case
casatools_findcoordinate(c, type) ==
    LET at == CHOOSE i \in 1..Len(c.types) :
                  /\ Lower(c.types[i]) = Lower(type)
                  /\ \A j \in 1..(i - 1) : Lower(c.types[j]) # Lower(type)
    IN  [pixel |-> c.pixel[at]]

\* get_names without the reversal
get_names_native_order(c) ==
    [i \in 1..Len(casatools_coordinatetype(c)) |-> Lower(casatools_coordinatetype(c)[i])]

\* list(map(str.lower, self._cs.coordinatetype()[::-1]))
get_names(c) ==
    LET types == Reverse(casatools_coordinatetype(c))
    IN  [i \in 1..Len(types) |-> Lower(types[i])]

\* the entry get_axes appends for one coordinate type
AxesEntry(c, axis_type) ==
    LET axis_names == casatools_names(c)
        axis_inds == casatools_findcoordinate(c, axis_type).pixel
        rev == Reverse(axis_inds)
        axes_list == [m \in 1..Len(rev) |-> PyStr(axis_names[rev[m] + 1])]
    IN  IF axis_type = "spectral" THEN axes_list[1] ELSE PyList(axes_list)

get_axes(c) ==
    LET names == get_names(c)
    IN  PyList([i \in 1..Len(names) |-> AxesEntry(c, names[i])])

\* the coordinate systems of the engine: up to MaxCoords coordinates of different
\* types; each coordinate's pixel axes are consecutive, in its own order or
\* (flip) the other way round
TypeLists ==
    UNION { {ts \in [1..n -> CoordTypes] : \A i, j \in 1..n : i # j => ts[i] # ts[j]}
            : n \in 1..MaxCoords }
RECURSIVE AxesBefore(_, _)
AxesBefore(ts, i) == IF i = 1 THEN 0 ELSE AxesBefore(ts, i - 1) + Len(AxisNames(ts[i - 1]))
PixelAxes(ts, flip) ==
    [i \in 1..Len(ts) |->
        LET n == Len(AxisNames(ts[i]))
            own == [m \in 1..n |-> AxesBefore(ts, i) + m - 1]
        IN  IF flip THEN Reverse(own) ELSE own]
RECURSIVE NamesByPixel(_, _, _)
NamesByPixel(ts, pixel, axis) ==
    \* the axis name at each pixel axis number from axis on
    IF axis = AxesBefore(ts, Len(ts)) + Len(AxisNames(ts[Len(ts)])) THEN <<>>
    ELSE LET i == CHOOSE k \in 1..Len(ts) : \E m \in 1..Len(pixel[k]) : pixel[k][m] = axis
             m == CHOOSE q \in 1..Len(pixel[i]) : pixel[i][q] = axis
         IN  <<AxisNames(ts[i])[m]>> \o NamesByPixel(ts, pixel, axis + 1)
CoordSystems ==
    UNION { { [types |-> ts, pixel |-> PixelAxes(ts, flip),
               names |-> NamesByPixel(ts, PixelAxes(ts, flip), 0)] : flip \in BOOLEAN }
            : ts \in TypeLists }

CsIdle == cs = [types |-> <<>>, pixel |-> <<>>, names |-> <<>>] /\ csRet = [op |-> "idle"]

\* coordinatesystem(image): self._cs is the engine's coordinate system
CsInit ==
    /\ cs \in CoordSystems
    /\ csRet = [op |-> "init"]

GetNames ==
    /\ csRet' = [op |-> "get_names", value |-> get_names(cs)]
    /\ UNCHANGED cs

GetAxes ==
    /\ csRet' = [op |-> "get_axes", value |-> get_axes(cs)]
    /\ UNCHANGED cs

(***************************************************************************)
(* Specifications                                                          *)
(***************************************************************************)
vars == <<normVars, tableVars, imageVars, csVars>>

TableNext ==
    \/ (Close /\ UNCHANGED <<normVars, imageVars, csVars>>)
    \/ (Open /\ UNCHANGED <<normVars, imageVars, csVars>>)
    \/ (Row /\ UNCHANGED <<normVars, imageVars, csVars>>)
    \/ (Col /\ UNCHANGED <<normVars, imageVars, csVars>>)
    \/ (RowGet /\ UNCHANGED <<normVars, imageVars, csVars>>)
    \/ (RowGetItem /\ UNCHANGED <<normVars, imageVars, csVars>>)
    \/ (ColGet /\ UNCHANGED <<normVars, imageVars, csVars>>)
    \/ (ColGetItem /\ UNCHANGED <<normVars, imageVars, csVars>>)

Init == TableInit /\ NormIdle /\ ImageIdle /\ CsIdle

\* the table and its row and column views
Spec == Init /\ [][TableNext]_vars

QueryNext ==
    \/ (Close /\ UNCHANGED <<normVars, imageVars, csVars>>)
    \/ (Open /\ UNCHANGED <<normVars, imageVars, csVars>>)
    \/ (GetCellSlice /\ UNCHANGED <<normVars, imageVars, csVars>>)
    \/ (Taql /\ UNCHANGED <<normVars, imageVars, csVars>>)

\* the table's query and cell-slice operations
SpecQuery == Init /\ [][QueryNext]_vars

NormNext ==
    \/ (WrapInList /\ UNCHANGED <<tableVars, imageVars, csVars>>)
    \/ (WrapInDict /\ UNCHANGED <<tableVars, imageVars, csVars>>)
    \/ (Normalize /\ UNCHANGED <<tableVars, imageVars, csVars>>)

NormalizerInit == NormInit /\ TableIdle /\ ImageIdle /\ CsIdle

\* recursive_transpose applied to a value assembled from leaves
SpecNormalizer == NormalizerInit /\ [][NormNext]_vars

ImageNext ==
    \/ (ImageConstruct /\ UNCHANGED <<normVars, tableVars, csVars>>)
    \/ (FlattenMultibeam /\ UNCHANGED <<normVars, tableVars, csVars>>)
    \/ (Info /\ UNCHANGED <<normVars, tableVars, csVars>>)
    \/ (Done /\ UNCHANGED <<normVars, tableVars, csVars>>)

ImageSpecInit == ImageInit /\ NormIdle /\ TableIdle /\ CsIdle

\* the image: construction and metadata
SpecImage == ImageSpecInit /\ [][ImageNext]_vars

CsNext ==
    \/ (GetNames /\ UNCHANGED <<normVars, tableVars, imageVars>>)
    \/ (GetAxes /\ UNCHANGED <<normVars, tableVars, imageVars>>)

CsSpecInit == CsInit /\ NormIdle /\ TableIdle /\ ImageIdle

\* the coordinate system view
SpecCoordsys == CsSpecInit /\ [][CsNext]_vars

(***************************************************************************)
(* Claims about the table and its views                                    *)
(***************************************************************************)
CopyName == TableName \o CopySuffix
ViewOps ==
    {"tablerow.get", "tablerow.__getitem__", "tablecolumn.get", "tablecolumn.__getitem__"}
IsDataCall(c) == c.fn \in {"tablerow.get", "table.getcell"}

\* C1: after table.taql on a table that is not open, the shallow copy it made is
\* closed and its directory is gone, whether the engine's query returned or raised.
C1_CopyRemovedOnEveryPath ==
    (ret.op = "table.taql" /\ ~ret.wasOpen /\ ret.exc \in {"", "QueryError"})
        => (CopyName \notin storage /\ ~copyOpen)

\* C2: a get or an indexing of a row or column view made after the table was
\* closed raises ClosedHandleError in the view's accessor, without any engine call.
C2_ClosedViewRaisesClosedHandleError ==
    (ret.op \in ViewOps /\ ret.on.madeOpen /\ ~ret.wasOpen)
        => (ret.exc = "ClosedHandleError" /\ ret.calls = <<>>)

\* C3: what get and __getitem__ of a view return is recursive_transpose applied
\* exactly once to what the engine returned, also for arrays with an axis of
\* length 1.
C3_TransposedExactlyOnce ==
    (ret.op \in ViewOps /\ ret.exc = "" /\ ret.input.kind \in {"int", "slice"})
        => LET data == SelectSeq(ret.calls, IsDataCall)
           IN  IF ret.input.kind = "int"
               THEN ret.value = recursive_transpose(data[1].result)
               ELSE ret.value =
                        PyList([i \in 1..Len(data) |-> recursive_transpose(data[i].result)])

\* C6: view[a:b:s] is the list of view.get(i) for the i of the slice resolved
\* against the number of rows, in that order.
C6_SliceEqualsSequentialGets ==
    (ret.op \in {"tablerow.__getitem__", "tablecolumn.__getitem__"}
        /\ ret.input.kind = "slice" /\ ret.exc = "")
        => LET t == [cells |-> cells, mode |-> ret.mode]
               rows == Range(SliceIndices(ret.input, Len(cells)))
               Get(i) == IF ret.op = "tablerow.__getitem__"
                         THEN tablerow_get(t, i).value
                         ELSE tablecolumn_get(t, i).value
           IN  ret.value = PyList([k \in 1..Len(rows) |-> Get(rows[k])])

\* C7: the engine's getcellslice receives blc, trc and incr reversed, a scalar incr
\* first repeated len(blc) times.
C7_BoundsAndStrideReversed ==
    ret.op = "table.getcellslice"
        => LET k == ret.calls[1].kwargs
               in == ret.input
           IN  /\ k.blc = Reversed(in.blc)
               /\ k.trc = Reversed(in.trc)
               /\ "incr" \in DOMAIN k
               /\ k.incr = (IF IsSequence(in.incr) THEN Reversed(in.incr)
                            ELSE Repeat(in.incr, Len(in.blc.items)))

IsPlain(v) == v.kind \in {"None", "int", "str", "bool"}

\* r is v with every column-major leaf array transposed and nothing else touched
RECURSIVE Normalized(_, _)
Normalized(v, r) ==
    IF v.kind = "list"
    THEN /\ r.kind = "list"
         /\ Len(r.items) = Len(v.items)
         /\ \A i \in 1..Len(v.items) : Normalized(v.items[i], r.items[i])
    ELSE IF v.kind = "dict"
    THEN /\ r.kind = "dict"
         /\ r.keys = v.keys
         /\ Len(r.vals) = Len(v.vals)
         /\ \A i \in 1..Len(v.vals) : Normalized(v.vals[i], r.vals[i])
    ELSE IF v.kind = "ndarray" /\ f_contiguous(v)
    THEN /\ r.kind = "ndarray"
         /\ r.shape = Reverse(v.shape)
         /\ \A idx \in Indices(v) : ElemAt(r, Reverse(idx)) = ElemAt(v, idx)
    ELSE r = v

\* C4: recursive_transpose of any nesting of mappings and lists transposes every
\* column-major leaf array (shape reversed, the element at index (i,j,..) found at
\* the reversed index) and keeps every container's keys, key order, element order
\* and length.
C4_NestedLeavesTransposed == pc = "done" => Normalized(val, result)

\* a mapping holding a list of mappings holding a column-major array of two
\* different axis lengths has been normalized
C4_Witness ==
    /\ pc = "done"
    /\ val.kind = "dict" /\ val.vals[1].kind = "list"
    /\ val.vals[1].items[1].kind = "dict"
    /\ val.vals[1].items[1].vals[1].kind = "ndarray"
    /\ val.vals[1].items[1].vals[1].shape = <<2, 3>>
    /\ val.vals[1].items[1].vals[1].strides = <<1, 2>>
    /\ result.vals[1].items[1].vals[1].shape = <<3, 2>>

\* C5 as stated: a scalar, a string, a boolean, None or a row-major contiguous
\* array is returned unchanged.
C5_RowMajorUnchanged ==
    (pc = "done" /\ (IsPlain(val) \/ (val.kind = "ndarray" /\ c_contiguous(val))))
        => result = val

\* C5 as amended: a scalar, a string, a boolean, None or an array that is not
\* column-major contiguous is returned unchanged; a row-major array that is also
\* column-major contiguous is returned as its transpose view.
C5_NotColumnMajorUnchanged ==
    /\ (pc = "done" /\ (IsPlain(val) \/ (val.kind = "ndarray" /\ ~f_contiguous(val))))
          => result = val
    /\ (pc = "done" /\ val.kind = "ndarray" /\ c_contiguous(val) /\ f_contiguous(val))
          => result = T(val)

\* a row-major array that is not column-major has come back as it was
C5_Witness ==
    /\ pc = "done"
    /\ val.kind = "ndarray" /\ c_contiguous(val) /\ ~f_contiguous(val)
    /\ result = val

(***************************************************************************)
(* Claims about the image                                                  *)
(***************************************************************************)
HasDistinctKeys(d) == \A i, j \in 1..Len(d.keys) : i # j => d.keys[i] # d.keys[j]

\* C8: after image._flatten_multibeam, perplanebeams holds under "*" + str(nChannels*p + c)
\* the original beams['*c']['*p'] for every channel c and polarization p, the
\* nested beams entry is gone, and no pair's beam is overwritten by another's.
C8_BeamsFlattened ==
    (imgRet.op = "image._flatten_multibeam" /\ DictHas(imgRet.input, "perplanebeams"))
        => LET in == DictGet(imgRet.input, "perplanebeams")
               out == DictGet(imgRet.value, "perplanebeams")
               nchan == DictGet(in, "nChannels").iv
               npol == DictGet(in, "nStokes").iv
               beams == DictGet(in, "beams")
           IN  /\ ~DictHas(out, "beams")
               /\ HasDistinctKeys(out)
               /\ Len(out.keys) = 2 + nchan * npol
               /\ \A c \in 0..(nchan - 1) : \A p \in 0..(npol - 1) :
                     /\ DictHas(out, StarKey(nchan * p + c))
                     /\ DictGet(out, StarKey(nchan * p + c))
                            = DictGet(DictGet(beams, StarKey(c)), StarKey(p))
               /\ (nchan = 3 /\ npol = 2)
                     => DictGet(out, "*4") = DictGet(DictGet(beams, "*1"), "*1")

\* three channels and two polarizations have been flattened, and key "*4" holds
\* the beam of channel 1, polarization 1, which differs from its neighbours'
C8_Witness ==
    /\ imgRet.op = "image._flatten_multibeam"
    /\ DictHas(imgRet.input, "perplanebeams")
    /\ LET in == DictGet(imgRet.input, "perplanebeams")
           out == DictGet(imgRet.value, "perplanebeams")
           beams == DictGet(in, "beams")
       IN  /\ DictGet(in, "nChannels").iv = 3 /\ DictGet(in, "nStokes").iv = 2
           /\ DictGet(DictGet(beams, "*1"), "*1") = Beam(2)
           /\ DictGet(DictGet(beams, "*2"), "*0") = Beam(1)
           /\ DictGet(DictGet(beams, "*0"), "*1") = Beam(1)
           /\ DictGet(out, "*4") = Beam(2)

IsImageAction(c) == c.fn \in {"image.open", "image.newimagefromshape", "image.newimagefromarray"}

\* C10: constructing an image performs exactly one of the engine's open and
\* create actions and yields a usable handle: open when no shape is given,
\* newimagefromshape for a shape without an array, newimagefromarray otherwise.
C10_ConstructsByOneEngineAction ==
    imgRet.op = "image.__init__"
        => /\ imgRet.exc = ""
           /\ Len(SelectSeq(imgRet.calls, IsImageAction)) = 1
           /\ SelectSeq(imgRet.calls, IsImageAction)[1].fn =
                 (IF imgRet.input.shape = PyNone THEN "image.open"
                  ELSE IF imgRet.input.values = PyNone THEN "image.newimagefromshape"
                  ELSE "image.newimagefromarray")

(***************************************************************************)
(* Claims about the coordinate system                                      *)
(***************************************************************************)
\* C9: get_axes returns one entry per coordinate type, in the reverse of the
\* engine's order of types; the entry of type spectral is one axis name, the entry
\* of any other type is the list of that type's axis names in reversed
\* pixel-axis order.
C9_AxesByTypeReversed ==
    csRet.op = "get_axes"
        => LET n == Len(cs.types)
               out == csRet.value
           IN  /\ out.kind = "list"
               /\ Len(out.items) = n
               /\ \A j \in 1..n :
                     LET i == n + 1 - j
                         axes == cs.pixel[i]
                     IN  IF cs.types[i] = "Spectral"
                         THEN out.items[j] = PyStr(cs.names[axes[1] + 1])
                         ELSE out.items[j] =
                                  PyList([m \in 1..Len(axes) |->
                                            PyStr(cs.names[axes[Len(axes) + 1 - m] + 1])])

\* get_axes has answered for a system of three coordinates with a spectral one
\* and one of two axes
C9_Witness ==
    /\ csRet.op = "get_axes"
    /\ Len(cs.types) = 3
    /\ \E j \in 1..3 : csRet.value.items[j] = PyStr("Frequency")
    /\ \E j \in 1..3 : csRet.value.items[j].kind = "list" /\ Len(csRet.value.items[j].items) = 2

====
